---- MODULE Spec2Model ----
(***************************************************************************)
(* A model of pykis' Api class (src/src/pykis/public_api.py): the          *)
(* operations that query the brokerage through the continuation-query      *)
(* pager, the request functions they hand to it, and the HTTP layer        *)
(* (_send_get_request, _send_post_request, _parse_headers).                *)
(*                                                                         *)
(* request_utility.py and utility.py are not part of the sources at hand:  *)
(* send_continuous_query, get_continuous_query_code, merge_json and        *)
(* none_to_empty_dict are modelled from the specification (section 4).     *)
(***************************************************************************)
EXTENDS Integers, Sequences, FiniteSets, TLC

\* ------------------------------------------------------------------ bounds
\* pages the server holds for one paged query
MaxPages == 3
\* rows the server hands out over one whole operation
MaxRowsTotal == 4
\* markets the per-market loops run over (a prefix of the market list)
NumMarkets == 2
\* fetch calls of one paged query the model follows
MaxCalls == MaxPages + 1
\* the largest quantity a caller hands to a cancel or revise operation
MaxAmount == 2
\* the largest amount of a deposit or margin the server reports
MaxMargin == 1

\* ------------------------------------------------------------ server data
\* A raw row of a response: `key` is the column to_dataframe turns into the
\* index (pdno / ovrs_pdno / odno), `val` stands for the other columns.
RawRows ==
    { [key |-> "k1", val |-> "v1"],
      [key |-> "k2", val |-> "v1"],
      [key |-> "k2", val |-> "v2"] }

\* A row that lacks the index column.
MalformedRow == [val |-> "v1"]

\* The other columns of a row of open orders (val "v1" / "v2"): the branch
\* the order was placed at, its side ("02" buy, "01" sell), ticker, market
\* and unfilled quantity.
OrderColumns(cols) ==
    IF cols = "v1"
    THEN [ ord_gno_brno |-> "06010", sll_buy_dvsn_cd |-> "02", pdno |-> "NDAQ",
           ovrs_excg_cd |-> "NASD", nccs_qty |-> MaxAmount ]
    ELSE [ ord_gno_brno |-> "06020", sll_buy_dvsn_cd |-> "01", pdno |-> "AAPL",
           ovrs_excg_cd |-> "NASD", nccs_qty |-> MaxAmount + 1 ]

\* the open orders a caller of cancel / revise names by their order number
OpenOrders == { [key |-> "k1", val |-> "v1"], [key |-> "k2", val |-> "v2"] }

SeqsUpTo(S, n) == UNION { [1..m -> S] : m \in 0..n }

\* response header tr_cont: "F" more data follows, "D" last page
ServerFlags == {"F", "D"}

\* the opaque cursor the server returns with page k
FkToken(k) == "fk" \o ToString(k)
NkToken(k) == "nk" \o ToString(k)

\* ---------------------------------------------------------------- values
None == [None |-> "None"]
IsNone(x) == DOMAIN x = {"None"}
EmptyJson == [k \in {} |-> ""]

AccountInfo == [account_code |-> "12345678", product_code |-> "01"]

Raise(e) == [exc |-> e]
Return(v) == [exc |-> "", val |-> v]

\* --------------------------------------------------------------- utility
\* merge_json([a, b]): the keys of both, a later dictionary wins
merge_json(a, b) == b @@ a

none_to_empty_dict(x) == IF IsNone(x) THEN EmptyJson ELSE x

\* "1" for domestic endpoints, "3" for overseas endpoints
get_continuous_query_code(is_kr) == IF is_kr THEN "1" ELSE "3"

FkName(is_kr) == "CTX_AREA_FK" \o get_continuous_query_code(is_kr)
NkName(is_kr) == "CTX_AREA_NK" \o get_continuous_query_code(is_kr)
BodyFkName(is_kr) == "ctx_area_fk" \o get_continuous_query_code(is_kr)
BodyNkName(is_kr) == "ctx_area_nk" \o get_continuous_query_code(is_kr)

\* oversea_info.Market.get_all()
MarketCodes ==
    << "NASD", "NYSE", "AMEX", "SEHK", "TKSE", "SHAA", "SZAA", "HASE", "VNSE" >>

\* utility.get_currency_code_from_market_code
get_currency_code_from_market_code(market_code) ==
    CASE market_code \in {"NASD", "NYSE", "AMEX"} -> "USD"
      [] market_code = "SEHK" -> "HKD"
      [] market_code = "TKSE" -> "JPY"
      [] market_code \in {"SHAA", "SZAA"} -> "CNY"
      [] OTHER -> "VND"

\* ------------------------------------------------------------- operations
PagedSingleOps ==
    { "get_kr_stock_balance", "get_kr_orders",
      "get_kr_order_history", "get_os_order_history" }
PagedMarketOps == { "get_os_stock_balance", "get_os_orders_by_flag" }
PagedOps == PagedSingleOps \cup PagedMarketOps
SingleOps ==
    { "get_kr_buyable_cash", "get_kr_deposit", "get_os_deposit",
      "buy_kr_stock", "sell_kr_stock", "buy_os_stock", "sell_os_stock",
      "cancel_kr_order", "revise_kr_order", "cancel_os_order", "revise_os_order" }
Ops == PagedOps \cup SingleOps

\* the cancel and revise operations, called with an order and an amount
OrderOps == { "cancel_kr_order", "revise_kr_order", "cancel_os_order", "revise_os_order" }

\* request functions handed to the pager, called with extra_header / extra_param
RequestFunctionOps ==
    { "_get_kr_total_balance", "_get_os_total_balance", "_get_kr_orders_once",
      "_get_os_orders_once", "_get_order_history" }

\* public operations built from a listing and a loop, or from two requests
CompositeOps ==
    { "cancel_all_kr_orders", "cancel_all_os_orders",
      "revise_all_os_order_by_current_price",
      "revise_all_os_buy_order_by_current_price",
      "get_os_orders_by_flag", "get_os_buy_orders", "get_os_sell_orders",
      "get_is_integrate" }

\* operations whose requests depend on the domain (real / virtual)
DomainOps == { "get_kr_order_history", "get_os_order_history", "get_os_deposit" }

\* the endpoint family an operation queries: TRUE domestic, FALSE overseas
EndpointIsKr(op) ==
    op \notin { "get_os_stock_balance", "get_os_order_history",
                "get_os_orders_by_flag" }

\* APIRequestParameter(url_path, tr_id, params, requires_authentication,
\* requires_hash, extra_header)
APIRequestParameter(url_path, params, auth, hash, extra_header) ==
    [ url_path |-> url_path, params |-> params,
      requires_authentication |-> auth, requires_hash |-> hash,
      extra_header |-> extra_header ]

\* ------------------------------------------------------ request functions
\* Each returns Raise(e) when building the request raises, and otherwise
\* Return(req) with the request that is handed to _send_get_request /
\* _send_post_request.

\* variant: the defaults are merged last and win
MergeParamsDefaultsLast(params, extra_param) == merge_json(extra_param, params)

\* params = merge_json([params, extra_param])
MergeParams(params, extra_param) == merge_json(params, extra_param)

\* variant: a missing account gives empty account fields
AccountParamsOptional(account) ==
    Return( "CANO" :> (IF IsNone(account) THEN "" ELSE account.account_code)
            @@ "ACNT_PRDT_CD" :> (IF IsNone(account) THEN "" ELSE account.product_code) )

\* self.account.account_code / self.account.product_code
AccountParams(account) ==
    IF IsNone(account) THEN Raise("AttributeError")
    ELSE Return( "CANO" :> account.account_code
                 @@ "ACNT_PRDT_CD" :> account.product_code )

\* variant: the cursor parameters are named without looking at is_kr
CursorDefaultsIgnoringFlag(is_kr) == FkName(TRUE) :> "" @@ NkName(TRUE) :> ""

\* query_code = get_continuous_query_code(is_kr); the two empty cursor
\* parameters CTX_AREA_FK{query_code} and CTX_AREA_NK{query_code}
CursorDefaults(is_kr) == FkName(is_kr) :> "" @@ NkName(is_kr) :> ""

_get_total_balance(account, is_kr, extra_header, extra_param) ==
    LET url_path == IF is_kr
                    THEN "/uapi/domestic-stock/v1/trading/inquire-balance"
                    ELSE "/uapi/overseas-stock/v1/trading/inquire-balance"
        eh == merge_json([tr_cont |-> ""], none_to_empty_dict(extra_header))
        ep == none_to_empty_dict(extra_param)
        acc == AccountParams(account)
    IN  IF acc.exc # "" THEN acc
        ELSE Return(APIRequestParameter(url_path,
                 MergeParams(acc.val @@ CursorDefaults(is_kr), ep),
                 TRUE, FALSE, eh))

_get_os_total_balance(account, market_code, extra_header, extra_param) ==
    LET ep == merge_json(
                  "OVRS_EXCG_CD" :> market_code
                  @@ "TR_CRCY_CD" :> get_currency_code_from_market_code(market_code),
                  none_to_empty_dict(extra_param))
    IN  _get_total_balance(account, FALSE, extra_header, ep)

\* variant: the cursor parameters are not handed on to _get_total_balance
_get_kr_total_balance_drops_extra_param(account, extra_header, extra_param) ==
    LET ep == [ AFHR_FLPR_YN |-> "N", FNCG_AMT_AUTO_RDPT_YN |-> "N",
                FUND_STTL_ICLD_YN |-> "N", INQR_DVSN |-> "01",
                OFL_YN |-> "N", PRCS_DVSN |-> "01", UNPR_DVSN |-> "01" ]
    IN  _get_total_balance(account, TRUE, extra_header, ep)

_get_kr_total_balance(account, extra_header, extra_param) ==
    LET ep == merge_json(
                  [ AFHR_FLPR_YN |-> "N", FNCG_AMT_AUTO_RDPT_YN |-> "N",
                    FUND_STTL_ICLD_YN |-> "N", INQR_DVSN |-> "01",
                    OFL_YN |-> "N", PRCS_DVSN |-> "01", UNPR_DVSN |-> "01" ],
                  none_to_empty_dict(extra_param))
    IN  _get_total_balance(account, TRUE, extra_header, ep)

_get_order_history(account, is_real, is_kr, sell_or_buy, extra_header, extra_param) ==
    LET url_path == IF is_kr
                    THEN "/uapi/domestic-stock/v1/trading/inquire-daily-ccld"
                    ELSE "/uapi/overseas-stock/v1/trading/inquire-ccnl"
        PDNO == IF is_kr THEN "" ELSE IF is_real THEN "%" ELSE ""
        OVRS_EXCG_CD == IF is_real THEN "NASD" ELSE ""
        eh == merge_json([tr_cont |-> ""], none_to_empty_dict(extra_header))
        ep == none_to_empty_dict(extra_param)
        acc == AccountParams(account)
        fixed == IF is_kr
                 THEN [ INQR_STRT_DT |-> "yesterday", INQR_END_DT |-> "today",
                        SLL_BUY_DVSN_CD |-> sell_or_buy, INQR_DVSN |-> "AS",
                        PDNO |-> PDNO, CCLD_DVSN |-> "00", ORD_GNO_BRNO |-> "",
                        ODNO |-> "", INQR_DVSN_3 |-> "00", INQR_DVSN_1 |-> "" ]
                 ELSE [ PDNO |-> PDNO, ORD_STRT_DT |-> "yesterday",
                        ORD_END_DT |-> "today", SLL_BUY_DVSN |-> sell_or_buy,
                        CCLD_NCCS_DVSN |-> "00", OVRS_EXCG_CD |-> OVRS_EXCG_CD,
                        SORT_SQN |-> "AS", ORD_DT |-> "", ORD_GNO_BRNO |-> "",
                        ODNO |-> "" ]
    IN  IF acc.exc # "" THEN acc
        ELSE Return(APIRequestParameter(url_path,
                 MergeParams(acc.val @@ fixed @@ CursorDefaults(is_kr), ep),
                 TRUE, FALSE, eh))

\* variant: the header of the request is always the empty default
_get_kr_orders_once_own_header(account, extra_header, extra_param) ==
    LET url_path == "/uapi/domestic-stock/v1/trading/inquire-psbl-rvsecncl"
        ep == none_to_empty_dict(extra_param)
        acc == AccountParams(account)
    IN  IF acc.exc # "" THEN acc
        ELSE Return(APIRequestParameter(url_path,
                 MergeParams(acc.val @@ CursorDefaults(TRUE)
                             @@ [INQR_DVSN_1 |-> "0", INQR_DVSN_2 |-> "0"], ep),
                 TRUE, FALSE, [tr_cont |-> ""]))

_get_kr_orders_once(account, extra_header, extra_param) ==
    LET url_path == "/uapi/domestic-stock/v1/trading/inquire-psbl-rvsecncl"
        eh == merge_json([tr_cont |-> ""], none_to_empty_dict(extra_header))
        ep == none_to_empty_dict(extra_param)
        acc == AccountParams(account)
    IN  IF acc.exc # "" THEN acc
        ELSE Return(APIRequestParameter(url_path,
                 MergeParams(acc.val @@ CursorDefaults(TRUE)
                             @@ [INQR_DVSN_1 |-> "0", INQR_DVSN_2 |-> "0"], ep),
                 TRUE, FALSE, eh))

_get_os_orders_once(account, markert_code, extra_header, extra_param) ==
    LET url_path == "/uapi/overseas-stock/v1/trading/inquire-nccs"
        eh == merge_json([tr_cont |-> ""], none_to_empty_dict(extra_header))
        ep == none_to_empty_dict(extra_param)
        acc == AccountParams(account)
    IN  IF acc.exc # "" THEN acc
        ELSE Return(APIRequestParameter(url_path,
                 MergeParams(acc.val @@ CursorDefaults(FALSE)
                             @@ [OVRS_EXCG_CD |-> markert_code, SORT_SQN |-> "DS"], ep),
                 TRUE, FALSE, eh))

get_kr_buyable_cash(account) ==
    LET url_path == "/uapi/domestic-stock/v1/trading/inquire-daily-ccld"
    IN  IF IsNone(account) THEN Raise("RuntimeError")
        ELSE Return(APIRequestParameter(url_path,
                 [ CANO |-> account.account_code,
                   ACNT_PRDT_CD |-> account.product_code,
                   PDNO |-> "", ORD_UNPR |-> "0", ORD_DVSN |-> "02",
                   CMA_EVLU_AMT_ICLD_YN |-> "Y", OVRS_ICLD_YN |-> "N" ],
                 TRUE, FALSE, None))

_send_kr_order(account, ticker, amount, price, buy) ==
    LET order_type == IF price <= 0 THEN "01" ELSE "00"
        p == IF price <= 0 THEN 0 ELSE price
        url_path == "/uapi/domestic-stock/v1/trading/order-cash"
        acc == AccountParams(account)
    IN  IF acc.exc # "" THEN acc
        ELSE Return(APIRequestParameter(url_path,
                 acc.val @@ [ PDNO |-> ticker, ORD_DVSN |-> order_type,
                              ORD_QTY |-> ToString(amount),
                              ORD_UNPR |-> ToString(p), CTAC_TLNO |-> "" ],
                 TRUE, TRUE, None))

_send_os_order(account, ticker, market_code, order_amount, price, buy) ==
    LET price_as_str == ToString(price) \o ".00"
        url_path == "/uapi/overseas-stock/v1/trading/order"
        acc == AccountParams(account)
    IN  IF price <= 0 THEN Raise("RuntimeError")
        ELSE IF acc.exc # "" THEN acc
        ELSE Return(APIRequestParameter(url_path,
                 acc.val @@ [ PDNO |-> ticker, OVRS_EXCG_CD |-> market_code,
                              ORD_DVSN |-> "00",
                              ORD_QTY |-> ToString(order_amount),
                              OVRS_ORD_UNPR |-> price_as_str,
                              ORD_SVR_DVSN_CD |-> "0" ],
                 TRUE, TRUE, None))

\* amount is None, or [n |-> <a number>]
_revise_cancel_os_orders(account, order_number, ticker, market_code, is_cancel, price, amount) ==
    LET url_path == "/uapi/overseas-stock/v1/trading/order-rvsecncl"
        cancel_dv == IF is_cancel THEN "02" ELSE "01"
        p == IF is_cancel THEN 0 ELSE price
        qty == IF IsNone(amount) THEN 1 ELSE IF amount.n <= 0 THEN 1 ELSE amount.n
        acc == AccountParams(account)
    IN  IF acc.exc # "" THEN acc
        ELSE Return(APIRequestParameter(url_path,
                 acc.val @@ [ OVRS_EXCG_CD |-> market_code, PDNO |-> ticker,
                              ORGN_ODNO |-> order_number,
                              RVSE_CNCL_DVSN_CD |-> cancel_dv,
                              ORD_QTY |-> ToString(qty),
                              OVRS_ORD_UNPR |-> ToString(p) ],
                 TRUE, TRUE, None))

\* variant: the all-remaining-quantity flag is never set
_revise_cancel_kr_orders_never_all(account, order_number, is_cancel, price, amount, order_branch) ==
    LET url_path == "/uapi/domestic-stock/v1/trading/order-rvsecncl"
        cancel_dv == IF is_cancel THEN "02" ELSE "01"
        all == IF IsNone(amount) THEN TRUE ELSE amount.n <= 0
        qty == IF all THEN 1 ELSE amount.n
        acc == AccountParams(account)
    IN  IF acc.exc # "" THEN acc
        ELSE Return(APIRequestParameter(url_path,
                 acc.val @@ [ KRX_FWDG_ORD_ORGNO |-> order_branch,
                              ORGN_ODNO |-> order_number, ORD_DVSN |-> "00",
                              RVSE_CNCL_DVSN_CD |-> cancel_dv,
                              ORD_QTY |-> ToString(qty),
                              ORD_UNPR |-> ToString(price),
                              QTY_ALL_ORD_YN |-> "N" ],
                 TRUE, TRUE, None))

_revise_cancel_kr_orders(account, order_number, is_cancel, price, amount, order_branch) ==
    LET url_path == "/uapi/domestic-stock/v1/trading/order-rvsecncl"
        cancel_dv == IF is_cancel THEN "02" ELSE "01"
        all == IF IsNone(amount) THEN TRUE ELSE amount.n <= 0
        apply_all == IF all THEN "Y" ELSE "N"
        qty == IF all THEN 1 ELSE amount.n
        acc == AccountParams(account)
    IN  IF acc.exc # "" THEN acc
        ELSE Return(APIRequestParameter(url_path,
                 acc.val @@ [ KRX_FWDG_ORD_ORGNO |-> order_branch,
                              ORGN_ODNO |-> order_number, ORD_DVSN |-> "00",
                              RVSE_CNCL_DVSN_CD |-> cancel_dv,
                              ORD_QTY |-> ToString(qty),
                              ORD_UNPR |-> ToString(price),
                              QTY_ALL_ORD_YN |-> apply_all ],
                 TRUE, TRUE, None))

\* variant: the cancel goes to the default branch
cancel_kr_order_default_branch(account, order_number, amount, order_branch) ==
    _revise_cancel_kr_orders(account, order_number, TRUE, 1, amount, "06010")

cancel_kr_order(account, order_number, amount, order_branch) ==
    _revise_cancel_kr_orders(account, order_number, TRUE, 1, amount, order_branch)

revise_kr_order(account, order_number, price, amount, order_branch) ==
    _revise_cancel_kr_orders(account, order_number, FALSE, price, amount, order_branch)

cancel_os_order(account, order_number, ticker, market_code, amount) ==
    _revise_cancel_os_orders(account, order_number, ticker, market_code, TRUE, 0, amount)

revise_os_order(account, order_number, ticker, market_code, price, amount) ==
    _revise_cancel_os_orders(account, order_number, ticker, market_code, FALSE, price, amount)

\* get_os_orders defines two nested functions and ends without a return
\* statement: it sends nothing and returns None
get_os_orders == Return(None)

\* The class defines revise_os_order_by_current_price twice; the second
\* definition, (self, order_id), is the one the class keeps, so the call
\* with the keywords order_number, ticker, amount, market_code raises.
revise_os_order_by_current_price(order_number, ticker, amount, market_code) ==
    Raise("TypeError")

\* the loop of revise_all_os_order_by_current_price and of
\* revise_all_os_buy_order_by_current_price over the listing: an exception
\* of an iteration is printed and the iteration adds nothing to rets
revise_all_rets(data) ==
    LET ret(r) == revise_os_order_by_current_price(
                      r.index, OrderColumns(r.cols).pdno,
                      OrderColumns(r.cols).nccs_qty,
                      OrderColumns(r.cols).ovrs_excg_cd)
        F[i \in 0..Len(data)] ==
            IF i = 0 THEN << >>
            ELSE IF ret(data[i]).exc # "" THEN F[i - 1]
                 ELSE Append(F[i - 1], ret(data[i]).val)
    IN  F[Len(data)]

\* variant: an account without deposits is reported as not integrated
IsIntegrateNeverUnknown(frcr_ord_psbl_amt1, ovrs_ord_psbl_amt, kr_deposit) ==
    IF frcr_ord_psbl_amt1 # 0 THEN "True" ELSE "False"

\* the decision of get_is_integrate on the real domain
IsIntegrate(frcr_ord_psbl_amt1, ovrs_ord_psbl_amt, kr_deposit) ==
    IF frcr_ord_psbl_amt1 # 0 THEN "True"
    ELSE IF ovrs_ord_psbl_amt = 0 /\ kr_deposit = 0 THEN "None"
    ELSE "False"

\* the overseas branch replaces extra_param by its fixed parameters
_get_inquire_psamount(account, is_kr, extra_header, extra_param) ==
    LET url_path == IF is_kr
                    THEN "/uapi/domestic-stock/v1/trading/inquire-balance"
                    ELSE "/uapi/overseas-stock/v1/trading/inquire-psamount"
        ep0 == IF is_kr THEN extra_param
               ELSE [ OVRS_EXCG_CD |-> "NASD", OVRS_ORD_UNPR |-> "0",
                      ITEM_CD |-> "NDAQ" ]
        eh == merge_json([tr_cont |-> ""], none_to_empty_dict(extra_header))
        ep == none_to_empty_dict(ep0)
        acc == AccountParams(account)
    IN  IF acc.exc # "" THEN acc
        ELSE Return(APIRequestParameter(url_path,
                 MergeParams(acc.val @@ CursorDefaults(is_kr), ep),
                 TRUE, FALSE, eh))

\* get_os_deposit asks _get_inquire_psamount on the real domain and
\* _get_kr_total_balance otherwise
get_os_deposit(account, is_real) ==
    IF is_real THEN _get_inquire_psamount(account, FALSE, None, None)
    ELSE _get_kr_total_balance(account, None, None)

\* -------------------------------------------------------------- responses
\* An APIResponse: rows is outputs[0] (body['output']), tr_cont the response
\* header, body the cursor fields of the response body.
APIResponse(rows, tr_cont, body) ==
    [ rows |-> rows, tr_cont |-> tr_cont, body |-> body ]

\* what the request layer hands back for a failed call when it does not raise
ErrorResponse == APIResponse(<< >>, "", EmptyJson)

\* send_get_request(url, headers, params, raise_flag): a failed call raises
\* when raise_flag is set and otherwise returns the failed response
send_get_request(raise_flag, ok, res) ==
    IF ok THEN Return(res)
    ELSE IF raise_flag THEN Raise("HTTPError") ELSE Return(ErrorResponse)

_send_get_request_noraise(ok, res) == send_get_request(FALSE, ok, res)

\* Api._send_get_request(req, raise_flag = True)
_send_get_request(ok, res) == send_get_request(TRUE, ok, res)

\* ------------------------------------------------------------- dataframes
\* A DataFrame is a sequence of rows [index, cols].
HasColumns(rows) == \A i \in 1..Len(rows) : "key" \in DOMAIN rows[i]

\* tdf.set_index(<key column>) followed by the column selection
SetIndex(rows) == [ i \in 1..Len(rows) |-> [index |-> rows[i].key, cols |-> rows[i].val] ]

\* a frame that keeps the default RangeIndex
RangeIndex(rows) == [ i \in 1..Len(rows) |-> [index |-> ToString(i - 1), cols |-> rows[i]] ]

IndexedNoEmptyCheck(res) ==
    IF ~ (Len(res.rows) > 0 /\ HasColumns(res.rows)) THEN Raise("KeyError")
    ELSE Return(SetIndex(res.rows))

\* to_dataframe of get_kr_stock_balance, _get_os_stock_balance, get_kr_orders
IndexedToDataframe(res) ==
    IF Len(res.rows) = 0 THEN Return(<< >>)
    ELSE IF ~ HasColumns(res.rows) THEN Raise("KeyError")
    ELSE Return(SetIndex(res.rows))

\* to_dataframe of _get_kr_order_history: column selection, no index
SelectedToDataframe(res) ==
    IF Len(res.rows) = 0 THEN Return(<< >>)
    ELSE IF ~ HasColumns(res.rows) THEN Raise("KeyError")
    ELSE Return(RangeIndex(res.rows))

\* to_dataframe of _get_os_order_history: rename only
RenamedToDataframe(res) ==
    IF Len(res.rows) = 0 THEN Return(<< >>)
    ELSE Return(RangeIndex(res.rows))

\* to_dataframe of get_os_orders_by_flag: inside it sell_or_buy names the
\* nested function, so the filter data[column] == sell_or_buy keeps no row
FilteredToDataframe(res) ==
    IF Len(res.rows) = 0 THEN Return(<< >>)
    ELSE IF ~ HasColumns(res.rows) THEN Raise("KeyError")
    ELSE Return(SelectSeq(SetIndex(res.rows), LAMBDA r : FALSE))

to_dataframe(op, res) ==
    CASE op \in {"get_kr_stock_balance", "get_os_stock_balance", "get_kr_orders"}
             -> IndexedToDataframe(res)
      [] op = "get_kr_order_history" -> SelectedToDataframe(res)
      [] op = "get_os_order_history" -> RenamedToDataframe(res)
      [] OTHER -> FilteredToDataframe(res)

HasNamedIndex(op) == op \notin {"get_kr_order_history", "get_os_order_history"}

\* the rows of df whose id (ids[i] for row i) no earlier row has, in order
KeepFirst(df, ids) ==
    LET F[i \in 0..Len(df)] ==
            IF i = 0 THEN << >>
            ELSE IF \E j \in 1..(i - 1) : ids[j] = ids[i]
                 THEN F[i - 1]
                 ELSE Append(F[i - 1], df[i])
    IN  F[Len(df)]

\* pd.concat(frames)
concat(frames) ==
    LET F[i \in 0..Len(frames)] ==
            IF i = 0 THEN << >> ELSE F[i - 1] \o frames[i]
    IN  F[Len(frames)]

\* DataFrame.drop_duplicates(): compares the columns, not the index
drop_duplicates(df) == KeepFirst(df, [i \in 1..Len(df) |-> df[i].cols])

\* ------------------------------------------------------------------ pager
\* send_continuous_query(request_function, to_dataframe, is_kr)

\* the value of is_kr when the caller passes none
DefaultIsKr == TRUE

\* the is_kr argument at each call site of send_continuous_query
PagerIsKr(op) ==
    CASE op \in {"get_os_stock_balance", "get_os_order_history"} -> FALSE
      [] op = "get_kr_order_history" -> TRUE
      [] OTHER -> DefaultIsKr

\* response flags that announce more data
MoreFlags == {"F", ""}
no_more_data(tr_cont) == tr_cont \notin MoreFlags

\* the cursor of the response, under the request names of the query code
NextExtraParam(is_kr, body) ==
    IF ~ ({BodyFkName(is_kr), BodyNkName(is_kr)} \subseteq DOMAIN body)
    THEN Raise("KeyError")
    ELSE Return( FkName(is_kr) :> body[BodyFkName(is_kr)]
                 @@ NkName(is_kr) :> body[BodyNkName(is_kr)] )

\* what identifies a row of the combined table
PagerRowId(op, r) == IF HasNamedIndex(op) THEN << r.index, r.cols >> ELSE << r.cols >>

\* the combined table of one query: the pages concatenated, duplicates removed
PagerResult(op, outputs) ==
    LET df == concat(outputs)
    IN  KeepFirst(df, [i \in 1..Len(df) |-> PagerRowId(op, df[i])])

\* one iteration after the response arrived
PagerStep(op, outputs, res) ==
    LET df == to_dataframe(op, res)
    IN  IF df.exc # "" THEN [exc |-> df.exc]
        ELSE IF no_more_data(res.tr_cont)
             THEN [exc |-> "", stop |-> TRUE, outputs |-> Append(outputs, df.val)]
             ELSE LET c == NextExtraParam(PagerIsKr(op), res.body)
                  IN  IF c.exc # "" THEN [exc |-> c.exc]
                      ELSE [exc |-> "", stop |-> FALSE,
                            outputs |-> Append(outputs, df.val),
                            extra_param |-> c.val]

\* ------------------------------------------------- callers of the pager
\* the market codes a per-market operation loops over
MarketsOf(op) ==
    IF op = "get_os_stock_balance"
    THEN SubSeq(MarketCodes, 1, NumMarkets)
    ELSE SubSeq(SelectSeq(MarketCodes, LAMBDA c : c \notin {"AMEX", "NYSE"}),
                1, NumMarkets)

\* what the operation returns from the tables of its paged queries
FinalResult(op, datas) ==
    CASE op \in {"get_os_stock_balance", "get_kr_order_history",
                 "get_os_order_history"} -> drop_duplicates(concat(datas))
      [] op = "get_os_orders_by_flag" -> concat(datas)
      [] OTHER -> datas[1]

\* the request function the pager calls
request_function(op, account, is_real, market_code, args, extra_header, extra_param) ==
    CASE op = "get_kr_stock_balance"
             -> _get_kr_total_balance(account, extra_header, extra_param)
      [] op = "get_os_stock_balance"
             -> _get_os_total_balance(account, market_code, extra_header, extra_param)
      [] op = "get_kr_order_history"
             -> _get_order_history(account, is_real, TRUE, "00", extra_header, extra_param)
      [] op = "get_os_order_history"
             -> _get_order_history(account, is_real, FALSE, "00", extra_header, extra_param)
      [] op = "get_kr_orders"
             -> _get_kr_orders_once(account, extra_header, extra_param)
      [] op = "get_os_orders_by_flag"
             -> _get_os_orders_once(account, market_code, extra_header, extra_param)
      [] op = "get_kr_buyable_cash" -> get_kr_buyable_cash(account)
      [] op = "get_kr_deposit" -> _get_kr_total_balance(account, None, None)
      [] op = "get_os_deposit" -> get_os_deposit(account, is_real)
      [] op = "buy_kr_stock" -> _send_kr_order(account, "005930", 1, 0, TRUE)
      [] op = "sell_kr_stock" -> _send_kr_order(account, "005930", 1, 70000, FALSE)
      [] op = "buy_os_stock" -> _send_os_order(account, "NDAQ", "NASD", 1, 60, TRUE)
      [] op = "sell_os_stock" -> _send_os_order(account, "NDAQ", "NASD", 1, 60, FALSE)
      [] op = "cancel_kr_order"
             -> cancel_kr_order(account, args.order_number, args.amount,
                                args.order_branch)
      [] op = "revise_kr_order"
             -> revise_kr_order(account, args.order_number, args.price,
                                args.amount, args.order_branch)
      [] op = "cancel_os_order"
             -> cancel_os_order(account, args.order_number, args.ticker,
                                args.market_code, args.amount)
      [] op = "revise_os_order"
             -> revise_os_order(account, args.order_number, args.ticker,
                                args.market_code, args.price, args.amount)
      [] op = "_get_kr_total_balance"
             -> _get_kr_total_balance(account, extra_header, extra_param)
      [] op = "_get_os_total_balance"
             -> _get_os_total_balance(account, "NASD", extra_header, extra_param)
      [] op = "_get_kr_orders_once"
             -> _get_kr_orders_once(account, extra_header, extra_param)
      [] op = "_get_os_orders_once"
             -> _get_os_orders_once(account, "NASD", extra_header, extra_param)
      [] op = "_get_order_history"
             -> _get_order_history(account, is_real, TRUE, "00", extra_header, extra_param)
      [] OTHER -> _get_inquire_psamount(account, FALSE, None, None)

\* ----------------------------------------------------------------- server
\* the cursor fields of the body of page k of an endpoint family
Body(is_kr, k) ==
    BodyFkName(is_kr) :> FkToken(k) @@ BodyNkName(is_kr) :> NkToken(k)

\* the page a request asks for: the first one for an empty next key, the one
\* after page k for the next key of page k
PageIndex(params, is_kr) ==
    IF NkName(is_kr) \notin DOMAIN params THEN 1
    ELSE LET nk == params[NkName(is_kr)]
         IN  IF \E k \in 1..MaxCalls : NkToken(k) = nk
             THEN (CHOOSE k \in 1..MaxCalls : NkToken(k) = nk) + 1
             ELSE 1

\* the responses the server may give to a request that is not paged: the
\* margins of inquire-psamount, the deposit of inquire-balance
SingleResponses(op) ==
    CASE op = "_get_inquire_psamount"
             -> { APIResponse(<< >>, "", [ ovrs_ord_psbl_amt |-> a,
                                            frcr_ord_psbl_amt1 |-> b ]) :
                    a \in 0..MaxMargin, b \in 0..MaxMargin }
      [] op = "get_kr_deposit"
             -> { APIResponse(<< >>, "", [ prvs_rcdl_excc_amt |-> c ]) :
                    c \in 0..MaxMargin }
      [] OTHER -> { APIResponse(<< >>, "", EmptyJson) }

\* the pages the server may hold at position Len(pages) + 1
FreshPages(is_kr, pages, budget) ==
    LET k == Len(pages) + 1
    IN  IF k > 1 /\ pages[k - 1].tr_cont = "D"
        THEN { APIResponse(<< >>, "D", Body(is_kr, k)) }
        ELSE { APIResponse(rows, f, Body(is_kr, k)) :
                 rows \in SeqsUpTo(RawRows, budget)
                          \cup (IF budget > 0 THEN { << MalformedRow >> } ELSE {}),
                 f \in (IF k >= MaxPages THEN {"D"} ELSE ServerFlags) }

\* ------------------------------------------------------------------ state
VARIABLES
    account,      \* self.account: None or the configured account
    domain,       \* self.domain: "real" or "virtual"
    tokenValid,   \* self.token.is_valid()
    op,           \* the operation called, "" before the call
    pc,           \* where the call is
    err,          \* the exception the call ended with, "" if none
    mi,           \* position of the per-market loop
    extra_param,  \* the pager's cursor parameters
    outputs,      \* the pager's tables of the pages fetched so far
    datas,        \* the tables of the paged queries finished so far
    req,          \* the request being sent
    reqlog,       \* the requests the current paged query has sent
    served,       \* the responses the current paged query has received
    pages,        \* the pages of the current query the server has disclosed
    history,      \* all rows the server has disclosed, in order
    budget,       \* rows the server may still disclose
    inflight,     \* HTTP requests sent and not yet answered
    anySent,      \* some HTTP request has been sent
    httpFailed,   \* some HTTP request has failed
    result,       \* what the call returned
    caller,       \* the public operation that runs op as one of its steps, "" if none
    cpc,          \* where that operation is
    args,         \* the arguments of a cancel / revise call
    extra_header, \* the extra_header handed to the request function
    listing,      \* the table of open orders the operation loops over
    orderlog,     \* the requests the finished iterations of the loop have sent
    rets,         \* the responses the loop has collected
    held          \* the amounts get_is_integrate has read from its responses

\* the variables of the operations built from other operations
callVars == << caller, cpc, args, extra_header, listing, orderlog, rets, held >>

vars == << account, domain, tokenValid, op, pc, err, mi, extra_param, outputs,
           datas, req, reqlog, served, pages, history, budget, inflight,
           anySent, httpFailed, result, caller, cpc, args, extra_header,
           listing, orderlog, rets, held >>

NoResult == [has |-> FALSE, rows |-> << >>]

\* the arguments of a cancel / revise call: the order, the price of a
\* revision, the amount (None when the caller leaves it out)
OrderArgs(order, amount) ==
    [ order_number |-> order.key,
      order_branch |-> OrderColumns(order.val).ord_gno_brno,
      ticker |-> OrderColumns(order.val).pdno,
      market_code |-> OrderColumns(order.val).ovrs_excg_cd,
      price |-> 60, amount |-> amount ]

\* the amounts a caller hands over
Amounts == { None } \cup { [n |-> k] : k \in (0 - 1)..MaxAmount }

DefaultArgs == OrderArgs([key |-> "k1", val |-> "v1"], None)

Init ==
    /\ account \in {None, AccountInfo}
    /\ domain \in {"real", "virtual"}
    /\ tokenValid \in BOOLEAN
    /\ op = ""
    /\ pc = "idle"
    /\ err = ""
    /\ mi = 1
    /\ extra_param = EmptyJson
    /\ outputs = << >>
    /\ datas = << >>
    /\ req = None
    /\ reqlog = << >>
    /\ served = << >>
    /\ pages = << >>
    /\ history = << >>
    /\ budget = MaxRowsTotal
    /\ inflight = 0
    /\ anySent = FALSE
    /\ httpFailed = FALSE
    /\ result = NoResult
    /\ caller = ""
    /\ cpc = ""
    /\ args = DefaultArgs
    /\ extra_header = EmptyJson
    /\ listing = << >>
    /\ orderlog = << >>
    /\ rets = << >>
    /\ held = EmptyJson

\* variant: the caller goes on while the request is on the wire
ControlAfterSendNoWait == "request"

\* the caller resumes only when the response is there
ControlAfterSend == "wait"

CurrentMarket == MarketsOf(op)[mi]

\* A public operation is called.  The virtual domain is followed through
\* the operations whose requests depend on it.
Call ==
    /\ pc = "idle"
    /\ \E o \in Ops :
         /\ (domain = "real" \/ o \in DomainOps)
         /\ op' = o
    /\ pc' = "request"
    /\ UNCHANGED << account, domain, tokenValid, err, mi, extra_param, outputs,
                    datas, req, reqlog, served, pages, history, budget,
                    inflight, anySent, httpFailed, result >>
    /\ UNCHANGED callVars

\* The request function builds its APIRequestParameter.
BuildRequest ==
    /\ pc = "request"
    /\ Len(reqlog) < MaxCalls
    /\ LET r == request_function(op, account, domain = "real",
                                 IF op \in PagedMarketOps THEN CurrentMarket ELSE "",
                                 args, extra_header, extra_param)
       IN  IF r.exc # ""
           THEN /\ pc' = "error"
                /\ err' = r.exc
                /\ req' = req
           ELSE /\ pc' = "headers"
                /\ err' = err
                /\ req' = r.val
    /\ UNCHANGED << account, domain, tokenValid, op, mi, extra_param, outputs,
                    datas, reqlog, served, pages, history, budget, inflight,
                    anySent, httpFailed, result >>
    /\ UNCHANGED callVars

\* _parse_headers: create_token posts /oauth2/tokenP when the token is stale
CreateTokenSend ==
    /\ pc = "headers"
    /\ req.requires_authentication
    /\ ~ tokenValid
    /\ inflight' = inflight + 1
    /\ anySent' = TRUE
    /\ pc' = "token_wait"
    /\ UNCHANGED << account, domain, tokenValid, op, err, mi, extra_param,
                    outputs, datas, req, reqlog, served, pages, history,
                    budget, httpFailed, result >>
    /\ UNCHANGED callVars

CreateTokenRecv ==
    /\ pc = "token_wait"
    /\ inflight > 0
    /\ inflight' = inflight - 1
    /\ \E ok \in BOOLEAN :
         IF ok
         THEN /\ tokenValid' = TRUE
              /\ pc' = "headers"
              /\ UNCHANGED << err, httpFailed >>
         ELSE /\ pc' = "error"
              /\ err' = "HTTPError"
              /\ httpFailed' = TRUE
              /\ UNCHANGED tokenValid
    /\ UNCHANGED << account, domain, op, mi, extra_param, outputs, datas, req,
                    reqlog, served, pages, history, budget, anySent, result >>
    /\ UNCHANGED callVars

\* _parse_headers returns; _send_post_request asks for the hash key if needed
HeadersDone ==
    /\ pc = "headers"
    /\ (~ req.requires_authentication) \/ tokenValid
    /\ pc' = IF req.requires_hash THEN "hash" ELSE "send"
    /\ UNCHANGED << account, domain, tokenValid, op, err, mi, extra_param,
                    outputs, datas, req, reqlog, served, pages, history,
                    budget, inflight, anySent, httpFailed, result >>
    /\ UNCHANGED callVars

\* set_hash_key: get_hash_key posts /uapi/hashkey
HashSend ==
    /\ pc = "hash"
    /\ inflight' = inflight + 1
    /\ anySent' = TRUE
    /\ pc' = "hash_wait"
    /\ UNCHANGED << account, domain, tokenValid, op, err, mi, extra_param,
                    outputs, datas, req, reqlog, served, pages, history,
                    budget, httpFailed, result >>
    /\ UNCHANGED callVars

HashRecv ==
    /\ pc = "hash_wait"
    /\ inflight > 0
    /\ inflight' = inflight - 1
    /\ \E ok \in BOOLEAN :
         IF ok
         THEN /\ pc' = "send"
              /\ UNCHANGED << err, httpFailed >>
         ELSE /\ pc' = "error"
              /\ err' = "HTTPError"
              /\ httpFailed' = TRUE
    /\ UNCHANGED << account, domain, tokenValid, op, mi, extra_param, outputs,
                    datas, req, reqlog, served, pages, history, budget,
                    anySent, result >>
    /\ UNCHANGED callVars

\* send_get_request / send_post_request puts the request on the wire
Send ==
    /\ pc = "send"
    /\ inflight' = inflight + 1
    /\ anySent' = TRUE
    /\ reqlog' = Append(reqlog, [params |-> req.params, header |-> req.extra_header])
    /\ pc' = ControlAfterSend
    /\ UNCHANGED << account, domain, tokenValid, op, err, mi, extra_param,
                    outputs, datas, req, served, pages, history, budget,
                    httpFailed, result >>
    /\ UNCHANGED callVars

\* The response arrives.  A single request ends the call; in a paged query
\* the pager takes the page, and either goes on with the cursor of the
\* response or hands its table to the caller, who goes on with the next
\* market or returns.
Recv ==
    /\ pc = "wait"
    /\ inflight > 0
    /\ inflight' = inflight - 1
    /\ LET is_kr == EndpointIsKr(op)
           idx == PageIndex(reqlog[Len(reqlog)].params, is_kr)
           fresh == idx > Len(pages)
           offered == IF op \notin PagedOps
                      THEN SingleResponses(op)
                      ELSE IF fresh THEN FreshPages(is_kr, pages, budget)
                      ELSE { pages[idx] }
       IN  \E ok \in BOOLEAN : \E page \in (IF ok THEN offered ELSE { ErrorResponse }) :
             LET out == _send_get_request(ok, page)
                 disclosed == ok /\ fresh /\ op \in PagedOps
             IN  /\ httpFailed' = (httpFailed \/ ~ ok)
                 /\ pages' = IF disclosed THEN Append(pages, page) ELSE pages
                 /\ history' = IF disclosed /\ HasColumns(page.rows)
                               THEN history \o page.rows ELSE history
                 /\ budget' = IF disclosed THEN budget - Len(page.rows) ELSE budget
                 /\ IF out.exc # ""
                    THEN /\ pc' = "error"
                         /\ err' = out.exc
                         /\ UNCHANGED << mi, extra_param, outputs, datas, reqlog,
                                         served, result >>
                    ELSE IF op \notin PagedOps
                    THEN /\ pc' = "done"
                         /\ result' = [has |-> TRUE, rows |-> << >>,
                                       body |-> out.val.body]
                         /\ UNCHANGED << err, mi, extra_param, outputs, datas,
                                         reqlog, served >>
                    ELSE LET st == PagerStep(op, outputs, out.val)
                         IN  IF st.exc # ""
                             THEN /\ pc' = "error"
                                  /\ err' = st.exc
                                  /\ served' = Append(served, out.val)
                                  /\ UNCHANGED << mi, extra_param, outputs, datas,
                                                  reqlog, result >>
                             ELSE IF ~ st.stop
                             THEN /\ pc' = "request"
                                  /\ extra_param' = st.extra_param
                                  /\ outputs' = st.outputs
                                  /\ served' = Append(served, out.val)
                                  /\ UNCHANGED << err, mi, datas, reqlog, result >>
                             ELSE IF op \in PagedMarketOps /\ mi < Len(MarketsOf(op))
                             THEN /\ pc' = "request"
                                  /\ mi' = mi + 1
                                  /\ datas' = Append(datas, PagerResult(op, st.outputs))
                                  /\ extra_param' = EmptyJson
                                  /\ outputs' = << >>
                                  /\ reqlog' = << >>
                                  /\ served' = << >>
                                  /\ UNCHANGED << err, result >>
                             ELSE /\ pc' = "done"
                                  /\ datas' = Append(datas, PagerResult(op, st.outputs))
                                  /\ outputs' = st.outputs
                                  /\ served' = Append(served, out.val)
                                  /\ result' = [has |-> TRUE,
                                                rows |-> FinalResult(op, datas')]
                                  /\ UNCHANGED << err, mi, extra_param, reqlog >>
    /\ UNCHANGED << account, domain, tokenValid, op, req, anySent >>
    /\ UNCHANGED callVars

\* ---------------------------------- calls with arguments, built operations
\* cancel_kr_order, revise_kr_order, cancel_os_order or revise_os_order is
\* called for an open order, with or without an amount
CallOrder ==
    /\ pc = "idle"
    /\ domain = "real"
    /\ \E o \in OrderOps, order \in OpenOrders, amount \in Amounts :
         /\ op' = o
         /\ args' = OrderArgs(order, amount)
    /\ pc' = "request"
    /\ UNCHANGED << account, domain, tokenValid, err, mi, extra_param, outputs,
                    datas, req, reqlog, served, pages, history, budget,
                    inflight, anySent, httpFailed, result >>
    /\ UNCHANGED << caller, cpc, extra_header, listing, orderlog, rets, held >>

\* the extra_header values a caller hands to a request function
ExtraHeaders == { None, [tr_cont |-> "N"], [custtype |-> "P"] }

\* the extra_param values a caller hands to a request function: none, a
\* cursor of either endpoint family, an account field, fixed parameters
ExtraParams ==
    { None,
      [CTX_AREA_FK1 |-> FkToken(1), CTX_AREA_NK1 |-> NkToken(1)],
      [CTX_AREA_FK3 |-> FkToken(1), CTX_AREA_NK3 |-> NkToken(1)],
      [CANO |-> "00000000"],
      [INQR_DVSN_1 |-> "1", OVRS_EXCG_CD |-> "NYSE", INQR_DVSN |-> "02"] }

\* a request function is called directly
CallRequestFunction ==
    /\ pc = "idle"
    /\ \E o \in RequestFunctionOps, h \in ExtraHeaders, p \in ExtraParams :
         /\ (domain = "real" \/ o = "_get_order_history")
         /\ op' = o
         /\ extra_header' = h
         /\ extra_param' = p
    /\ pc' = "request"
    /\ UNCHANGED << account, domain, tokenValid, err, mi, outputs, datas, req,
                    reqlog, served, pages, history, budget, inflight, anySent,
                    httpFailed, result >>
    /\ UNCHANGED << caller, cpc, args, listing, orderlog, rets, held >>

\* An operation built from other operations is called and starts its first
\* step: the listing of open orders, or the first request of
\* get_is_integrate.  cancel_all_os_orders reads data.index of what
\* get_os_orders returned; get_is_integrate returns None at once on the
\* virtual domain.
CallComposite ==
    /\ pc = "idle"
    /\ \E c \in CompositeOps :
         /\ (domain = "real" \/ c = "get_is_integrate")
         /\ caller' = c
         /\ CASE c = "cancel_all_os_orders"
                   -> /\ op' = "get_os_orders"
                      /\ cpc' = "listing"
                      /\ IF IsNone(get_os_orders.val)
                         THEN pc' = "error" /\ err' = "AttributeError"
                         ELSE pc' = "done" /\ err' = err
                      /\ result' = result
              [] c = "get_is_integrate"
                   -> IF domain = "real"
                      THEN /\ op' = "_get_inquire_psamount"
                           /\ cpc' = "first"
                           /\ pc' = "request"
                           /\ UNCHANGED << err, result >>
                      ELSE /\ op' = c
                           /\ cpc' = "returned"
                           /\ pc' = "done"
                           /\ result' = [has |-> TRUE, rows |-> << >>, val |-> "None"]
                           /\ err' = err
              [] c = "cancel_all_kr_orders"
                   -> /\ op' = "get_kr_orders"
                      /\ cpc' = "listing"
                      /\ pc' = "request"
                      /\ UNCHANGED << err, result >>
              [] OTHER
                   -> /\ op' = "get_os_orders_by_flag"
                      /\ cpc' = "listing"
                      /\ pc' = "request"
                      /\ UNCHANGED << err, result >>
    /\ UNCHANGED << account, domain, tokenValid, mi, extra_param, outputs,
                    datas, req, reqlog, served, pages, history, budget,
                    inflight, anySent, httpFailed >>
    /\ UNCHANGED << args, extra_header, listing, orderlog, rets, held >>

\* The listing has returned its table.  cancel_all_kr_orders reads
\* data["주문점"], which a table without rows does not have, and then
\* cancels the first order; the revise_all operations run their loop, whose
\* iterations all raise; get_os_orders_by_flag and get_os_buy_orders /
\* get_os_sell_orders return the table.
ListingDone ==
    /\ pc = "done"
    /\ cpc = "listing"
    /\ LET data == result.rows
       IN  CASE caller = "cancel_all_kr_orders"
                  -> IF data = << >>
                     THEN /\ pc' = "error"
                          /\ err' = "KeyError"
                          /\ UNCHANGED << op, cpc, args, listing, reqlog, served,
                                          result, rets >>
                     ELSE /\ listing' = data
                          /\ op' = "cancel_kr_order"
                          /\ args' = [ DefaultArgs EXCEPT
                                         !.order_number = data[1].index,
                                         !.order_branch =
                                             OrderColumns(data[1].cols).ord_gno_brno,
                                         !.amount = None ]
                          /\ cpc' = "loop"
                          /\ pc' = "request"
                          /\ reqlog' = << >>
                          /\ served' = << >>
                          /\ result' = NoResult
                          /\ UNCHANGED << err, rets >>
             [] caller \in { "revise_all_os_order_by_current_price",
                             "revise_all_os_buy_order_by_current_price" }
                  -> /\ listing' = data
                     /\ rets' = revise_all_rets(data)
                     /\ cpc' = "returned"
                     /\ UNCHANGED << op, pc, err, args, reqlog, served, result >>
             [] OTHER
                  -> /\ listing' = data
                     /\ cpc' = "returned"
                     /\ UNCHANGED << op, pc, err, args, reqlog, served, result,
                                     rets >>
    /\ UNCHANGED << account, domain, tokenValid, mi, extra_param, outputs,
                    datas, req, pages, history, budget, inflight, anySent,
                    httpFailed, caller, extra_header, orderlog, held >>

\* One cancel request of cancel_all_kr_orders has been answered: the loop
\* goes on with the next order of the listing, or the operation returns.
LoopStep ==
    /\ pc = "done"
    /\ cpc = "loop"
    /\ rets' = Append(rets, result.body)
    /\ orderlog' = orderlog \o reqlog
    /\ reqlog' = << >>
    /\ IF Len(rets') < Len(listing)
       THEN LET r == listing[Len(rets') + 1]
            IN  /\ args' = [ args EXCEPT
                               !.order_number = r.index,
                               !.order_branch = OrderColumns(r.cols).ord_gno_brno ]
                /\ pc' = "request"
                /\ result' = NoResult
                /\ cpc' = cpc
       ELSE /\ cpc' = "returned"
            /\ result' = [has |-> TRUE, rows |-> << >>]
            /\ UNCHANGED << args, pc >>
    /\ UNCHANGED << account, domain, tokenValid, op, err, mi, extra_param,
                    outputs, datas, req, served, pages, history, budget,
                    inflight, anySent, httpFailed, caller, extra_header,
                    listing, held >>

\* get_is_integrate on the real domain: after the margins have arrived it
\* asks get_kr_deposit, and after the deposit has arrived it decides.
IntegrateStep ==
    /\ pc = "done"
    /\ cpc \in {"first", "second"}
    /\ IF cpc = "first"
       THEN /\ held' = result.body
            /\ op' = "get_kr_deposit"
            /\ cpc' = "second"
            /\ pc' = "request"
            /\ result' = NoResult
       ELSE /\ result' = [ has |-> TRUE, rows |-> << >>,
                           val |-> IsIntegrate(held.frcr_ord_psbl_amt1,
                                               held.ovrs_ord_psbl_amt,
                                               result.body.prvs_rcdl_excc_amt) ]
            /\ held' = held @@ result.body
            /\ cpc' = "returned"
            /\ UNCHANGED << op, pc >>
    /\ UNCHANGED << account, domain, tokenValid, err, mi, extra_param, outputs,
                    datas, req, reqlog, served, pages, history, budget,
                    inflight, anySent, httpFailed, caller, args, extra_header,
                    listing, orderlog, rets >>

Next ==
    \/ Call
    \/ BuildRequest
    \/ CreateTokenSend
    \/ CreateTokenRecv
    \/ HeadersDone
    \/ HashSend
    \/ HashRecv
    \/ Send
    \/ Recv

Spec == Init /\ [][Next]_vars

\* the operations that take arguments or are built from other operations
OrderNext ==
    \/ CallOrder
    \/ CallRequestFunction
    \/ CallComposite
    \/ ListingDone
    \/ LoopStep
    \/ IntegrateStep
    \/ BuildRequest
    \/ CreateTokenSend
    \/ CreateTokenRecv
    \/ HeadersDone
    \/ HashSend
    \/ HashRecv
    \/ Send
    \/ Recv

OrderSpec == Init /\ [][OrderNext]_vars

TypeOK ==
    /\ pc \in {"idle", "request", "headers", "token_wait", "hash", "hash_wait",
               "send", "wait", "done", "error"}
    /\ inflight \in 0..2
    /\ budget \in 0..MaxRowsTotal

\* ================================================================ claims
Last(s) == s[Len(s)]
NoRepeats(s) == \A i, j \in 1..Len(s) : i < j => s[i] # s[j]

\* the raw rows as rows of a table indexed by the key column
Mapped(rows) == [ i \in 1..Len(rows) |-> [index |-> rows[i].key, cols |-> rows[i].val] ]

\* the rows of the pages in page order, a row that ends one page and opens
\* the next taken once
BoundaryMerged(ps) ==
    LET F[i \in 0..Len(ps)] ==
            IF i = 0 THEN << >>
            ELSE IF Len(F[i - 1]) > 0 /\ Len(ps[i].rows) > 0
                    /\ ps[i].rows[1] = Last(F[i - 1])
                 THEN F[i - 1] \o Tail(ps[i].rows)
                 ELSE F[i - 1] \o ps[i].rows
    IN  F[Len(ps)]

C2_CursorCarriedVerbatim ==
    op \in PagedOps =>
      LET is_kr == EndpointIsKr(op)
      IN  /\ Len(reqlog) >= 1 =>
                /\ reqlog[1].params[FkName(is_kr)] = ""
                /\ reqlog[1].params[NkName(is_kr)] = ""
          /\ \A k \in 1..(Len(reqlog) - 1) :
                /\ k <= Len(served)
                /\ reqlog[k + 1].params[FkName(is_kr)] = served[k].body[BodyFkName(is_kr)]
                /\ reqlog[k + 1].params[NkName(is_kr)] = served[k].body[BodyNkName(is_kr)]

\* a third request was sent, with the cursor of the second response
C2_Witness ==
    /\ op \in {"get_kr_stock_balance", "get_os_stock_balance"}
    /\ Len(reqlog) = 3
    /\ Len(served) >= 2
    /\ reqlog[3].params[NkName(EndpointIsKr(op))] = NkToken(2)
    /\ reqlog[2].params[NkName(EndpointIsKr(op))] = NkToken(1)

\* position of the first occurrence of x in s
FirstPos(s, x) == CHOOSE i \in 1..Len(s) : s[i] = x /\ \A j \in 1..(i - 1) : s[j] # x

\* res holds every element of s once, ordered by first occurrence in s
FirstSeenOnce(res, s) ==
    /\ NoRepeats(res)
    /\ { res[i] : i \in 1..Len(res) } = { s[i] : i \in 1..Len(s) }
    /\ \A i, j \in 1..Len(res) : i < j => FirstPos(s, res[i]) < FirstPos(s, res[j])

\* C3: the table get_os_stock_balance and get_kr_orders return holds every
\* distinct row the server sent exactly once, in first-seen order.
C3_EachDistinctRowOnce ==
    (op \in {"get_os_stock_balance", "get_kr_orders"} /\ pc = "done")
        => FirstSeenOnce(result.rows, Mapped(history))

\* C4: once a well-formed page announces more data, the pager holds its
\* cursor under the cursor parameter names the request function of the
\* query initialises, and no request of a paged query carries a cursor
\* parameter named for the other endpoint family.
C4_CursorRoutedByFamily ==
    op \in PagedOps =>
      LET is_kr == EndpointIsKr(op)
      IN  /\ \A k \in 1..Len(reqlog) :
                {FkName(~ is_kr), NkName(~ is_kr)} \cap DOMAIN reqlog[k].params = {}
          /\ (Len(served) >= 1 /\ Last(served).tr_cont = "F"
              /\ HasColumns(Last(served).rows))
                => /\ DOMAIN extra_param = {FkName(is_kr), NkName(is_kr)}
                   /\ extra_param[FkName(is_kr)] = Last(served).body[BodyFkName(is_kr)]
                   /\ extra_param[NkName(is_kr)] = Last(served).body[BodyNkName(is_kr)]

\* C5: once an HTTP call of a paged query has failed, the query has ended
\* with that error: nothing is on the wire, no request was sent after the
\* failed one, and nothing is returned.
C5_HttpFailureAbortsQuery ==
    (op \in PagedOps /\ httpFailed) =>
        /\ pc = "error"
        /\ err = "HTTPError"
        /\ inflight = 0
        /\ Len(reqlog) <= Len(served) + 1
        /\ result = NoResult

\* a call failed after a page with rows had been fetched
C5_Witness ==
    /\ op \in PagedOps
    /\ httpFailed
    /\ pc = "error"
    /\ Len(outputs) >= 1
    /\ Len(outputs[1]) >= 1
    /\ Len(reqlog) = 2

\* C7: when the first page of a single paged query is flagged as last and
\* has no rows, the query has returned the empty table after one call.
C7_EmptyTerminalPage ==
    (op \in PagedSingleOps /\ Len(served) >= 1
     /\ served[1].rows = << >> /\ served[1].tr_cont = "D")
        => /\ pc = "done"
           /\ result = [has |-> TRUE, rows |-> << >>]
           /\ Len(reqlog) = 1

C7_Witness ==
    /\ op = "get_kr_stock_balance"
    /\ pc = "done"
    /\ Len(served) = 1
    /\ served[1].rows = << >>
    /\ Len(reqlog) = 1
    /\ result.has

\* C8: when the first page of a paged query of get_os_stock_balance is
\* empty or malformed, the query sends no second request and ends without
\* an exception of its own.
C8_EmptyFirstPageShortCircuits ==
    (op = "get_os_stock_balance" /\ Len(served) >= 1
     /\ (served[1].rows = << >> \/ ~ HasColumns(served[1].rows)))
        => /\ Len(reqlog) = 1
           /\ (err = "" \/ httpFailed)

\* C9: without an account no HTTP request is ever sent, and every
\* operation ends with an error as soon as it builds its request.
C9_NoAccountNoRequest ==
    IsNone(account) =>
        /\ ~ anySent
        /\ inflight = 0
        /\ reqlog = << >>
        /\ pc \in {"idle", "request", "error"}
        /\ pc = "error" => err \in {"AttributeError", "RuntimeError"}

\* an order was placed with a stale token and no account: it raised
C9_Witness ==
    /\ IsNone(account)
    /\ ~ tokenValid
    /\ op = "buy_kr_stock"
    /\ pc = "error"
    /\ ~ anySent

\* C10: at most one HTTP request is on the wire, and none is while the
\* client builds or prepares the next one.
C10_OneRequestInFlight ==
    /\ inflight <= 1
    /\ pc \in {"idle", "request", "headers", "hash", "send", "done", "error"}
          => inflight = 0
    /\ Len(reqlog) <= Len(served) + 1

\* the query of the second market is on the wire after the first one ended
C10_Witness ==
    /\ op = "get_os_stock_balance"
    /\ mi = 2
    /\ Len(datas) = 1
    /\ pc = "wait"
    /\ inflight = 1

\* ---------------------------------------------------------------- C11
AllCursorNames ==
    { "CTX_AREA_FK1", "CTX_AREA_NK1", "CTX_AREA_FK3", "CTX_AREA_NK3" }

\* operations whose request function asks a domestic / an overseas endpoint
DomesticQueries ==
    { "get_kr_stock_balance", "get_kr_orders", "get_kr_order_history",
      "get_kr_deposit" }
OverseasQueries ==
    { "get_os_stock_balance", "get_os_order_history", "get_os_orders_by_flag" }

\* the cursor parameters a request carries are those of the family
NamedForFamily(params, domestic) ==
    DOMAIN params \cap AllCursorNames
        = IF domestic THEN { "CTX_AREA_FK1", "CTX_AREA_NK1" }
          ELSE { "CTX_AREA_FK3", "CTX_AREA_NK3" }

SentOrders == orderlog \o (IF cpc = "loop" THEN reqlog ELSE << >>)

\* C12: cancel_all_os_orders ends in an error only when an HTTP call failed
\* or no account is set, and when it has returned it has sent one cancel
\* request per order of the listing, in order, with the order's number,
\* ticker, market and unfilled quantity, and collected as many responses.
C12_CancelAllOsOrders ==
    caller = "cancel_all_os_orders" =>
        /\ pc = "error" => (httpFailed \/ IsNone(account))
        /\ cpc = "returned" =>
              /\ Len(rets) = Len(listing)
              /\ Len(SentOrders) = Len(listing)
              /\ \A i \in 1..Len(SentOrders) :
                    /\ SentOrders[i].params.ORGN_ODNO = listing[i].index
                    /\ SentOrders[i].params.PDNO = OrderColumns(listing[i].cols).pdno
                    /\ SentOrders[i].params.OVRS_EXCG_CD
                          = OrderColumns(listing[i].cols).ovrs_excg_cd
                    /\ SentOrders[i].params.ORD_QTY
                          = ToString(OrderColumns(listing[i].cols).nccs_qty)

\* ---------------------------------------------------------------- C13
\* the call leaves the amount out or gives one that is not positive
WholeOrder == IF IsNone(args.amount) THEN TRUE ELSE args.amount.n <= 0

\* the unfilled quantity of the open order the call names
Remaining ==
    OrderColumns((CHOOSE o \in OpenOrders : o.key = args.order_number).val).nccs_qty

\* C13: the request cancel_os_order / revise_os_order sends asks for the
\* whole unfilled quantity of the order when the call gives no positive
\* amount, and for the amount of the call otherwise.
C13_OsOrderAmount ==
    (op \in {"cancel_os_order", "revise_os_order"} /\ caller = ""
     /\ Len(reqlog) >= 1)
        => reqlog[1].params.ORD_QTY
             = ToString(IF WholeOrder THEN Remaining ELSE args.amount.n)

\* ---------------------------------------------------------------- C14
\* C14: the request cancel_kr_order / revise_kr_order sends has
\* QTY_ALL_ORD_YN "Y" when the call gives no positive amount, "N" and the
\* amount as ORD_QTY when it gives one, and division code "02" for a cancel
\* and "01" for a revision.
C14_KrOrderAllQuantityFlag ==
    (op \in {"cancel_kr_order", "revise_kr_order"} /\ caller = ""
     /\ Len(reqlog) >= 1)
        => LET p == reqlog[1].params
           IN  /\ p.QTY_ALL_ORD_YN = (IF WholeOrder THEN "Y" ELSE "N")
               /\ ~ WholeOrder => p.ORD_QTY = ToString(args.amount.n)
               /\ p.RVSE_CNCL_DVSN_CD = (IF op = "cancel_kr_order" THEN "02" ELSE "01")
               /\ p.ORGN_ODNO = args.order_number

\* a revision of a given positive amount has been answered
C14_Witness ==
    /\ op = "revise_kr_order"
    /\ caller = ""
    /\ pc = "done"
    /\ args.amount = [n |-> MaxAmount]
    /\ reqlog[1].params.QTY_ALL_ORD_YN = "N"
    /\ reqlog[1].params.ORD_QTY = ToString(MaxAmount)

\* ---------------------------------------------------------------- C15
\* C15: cancel_all_kr_orders loops over the table get_kr_orders returned;
\* the cancel requests it has sent are those of the first orders of that
\* table, in order, one each, with the order's number and branch and the
\* all-remaining-quantity flag; when it has returned every order has its
\* request; and when a step of a cancel failed, no request was sent after
\* the failed one.
C15_CancelAllKrOrders ==
    (caller = "cancel_all_kr_orders" /\ cpc \in {"loop", "returned"}) =>
        /\ listing = datas[1]
        /\ Len(SentOrders) <= Len(listing)
        /\ \A i \in 1..Len(SentOrders) :
              /\ SentOrders[i].params.ORGN_ODNO = listing[i].index
              /\ SentOrders[i].params.KRX_FWDG_ORD_ORGNO
                    = OrderColumns(listing[i].cols).ord_gno_brno
              /\ SentOrders[i].params.QTY_ALL_ORD_YN = "Y"
              /\ SentOrders[i].params.RVSE_CNCL_DVSN_CD = "02"
        /\ cpc = "returned" => Len(SentOrders) = Len(listing)
        /\ httpFailed => /\ pc = "error"
                         /\ inflight = 0
                         /\ Len(SentOrders) <= Len(rets) + 1

\* of three open orders the first was cancelled, the cancel of the second
\* failed, and the third was not attempted
C15_Witness ==
    /\ caller = "cancel_all_kr_orders"
    /\ cpc = "loop"
    /\ pc = "error"
    /\ httpFailed
    /\ Len(listing) = 3
    /\ Len(rets) = 1
    /\ Len(SentOrders) = 2
    /\ SentOrders[1].params.KRX_FWDG_ORD_ORGNO # SentOrders[2].params.KRX_FWDG_ORD_ORGNO

\* ---------------------------------------------------------------- C16
\* the rows of the given sides the server has sent, as a set of table rows
OrdersOfSides(sides) ==
    { r \in { Mapped(history)[i] : i \in 1..Len(history) } :
        OrderColumns(r.cols).sll_buy_dvsn_cd \in sides }

\* C16: what get_os_buy_orders returns are the open orders the server sent
\* whose side is buy, what get_os_sell_orders returns those whose side is
\* sell, and what get_os_orders_by_flag without a flag returns all of them.
C16_OsOrdersBySide ==
    (caller \in {"get_os_orders_by_flag", "get_os_buy_orders", "get_os_sell_orders"}
     /\ cpc = "returned")
        => { result.rows[i] : i \in 1..Len(result.rows) }
             = OrdersOfSides(CASE caller = "get_os_buy_orders" -> {"02"}
                               [] caller = "get_os_sell_orders" -> {"01"}
                               [] OTHER -> {"01", "02"})

\* ---------------------------------------------------------------- C17
\* C17: when revise_all_os_order_by_current_price (or the variant for buy
\* orders) has returned, it has collected one response per open order (per
\* open buy order) the server sent in the listing.
C17_ReviseAllOsOrders ==
    (caller \in {"revise_all_os_order_by_current_price",
                 "revise_all_os_buy_order_by_current_price"}
     /\ cpc = "returned")
        => Len(rets)
             = Cardinality(OrdersOfSides(
                   IF caller = "revise_all_os_buy_order_by_current_price"
                   THEN {"02"} ELSE {"01", "02"}))

\* ---------------------------------------------------------------- C18
\* C18: get_is_integrate on the virtual domain has returned None and
\* nothing has been sent; on the real domain, when it has returned, it has
\* returned True if the integrated margin is not zero, None if the
\* integrated margin, the foreign-currency margin and the KRW deposit are
\* all zero, and False otherwise.
C18_GetIsIntegrate ==
    caller = "get_is_integrate" =>
        /\ domain = "virtual" =>
              /\ cpc = "returned"
              /\ result.val = "None"
              /\ ~ anySent
              /\ reqlog = << >>
        /\ (domain = "real" /\ cpc = "returned") =>
              /\ held.frcr_ord_psbl_amt1 # 0 => result.val = "True"
              /\ (held.frcr_ord_psbl_amt1 = 0 /\ held.ovrs_ord_psbl_amt = 0
                  /\ held.prvs_rcdl_excc_amt = 0) => result.val = "None"
              /\ (held.frcr_ord_psbl_amt1 = 0
                  /\ (held.ovrs_ord_psbl_amt # 0 \/ held.prvs_rcdl_excc_amt # 0))
                    => result.val = "False"

\* no margins but a KRW deposit: not integrated
C18_Witness ==
    /\ caller = "get_is_integrate"
    /\ domain = "real"
    /\ cpc = "returned"
    /\ held.frcr_ord_psbl_amt1 = 0
    /\ held.ovrs_ord_psbl_amt = 0
    /\ held.prvs_rcdl_excc_amt = 1
    /\ result.val = "False"
    /\ Len(reqlog) = 2

\* ---------------------------------------------------------------- C19
\* the parameters each request function sets itself
OwnParams(o) ==
    [CANO |-> account.account_code, ACNT_PRDT_CD |-> account.product_code]
    @@ CASE o = "_get_kr_total_balance"
              -> [ CTX_AREA_FK1 |-> "", CTX_AREA_NK1 |-> "",
                   AFHR_FLPR_YN |-> "N", FNCG_AMT_AUTO_RDPT_YN |-> "N",
                   FUND_STTL_ICLD_YN |-> "N", INQR_DVSN |-> "01",
                   OFL_YN |-> "N", PRCS_DVSN |-> "01", UNPR_DVSN |-> "01" ]
         [] o = "_get_os_total_balance"
              -> [ CTX_AREA_FK3 |-> "", CTX_AREA_NK3 |-> "",
                   OVRS_EXCG_CD |-> "NASD", TR_CRCY_CD |-> "USD" ]
         [] o = "_get_kr_orders_once"
              -> [ CTX_AREA_FK1 |-> "", CTX_AREA_NK1 |-> "",
                   INQR_DVSN_1 |-> "0", INQR_DVSN_2 |-> "0" ]
         [] o = "_get_os_orders_once"
              -> [ CTX_AREA_FK3 |-> "", CTX_AREA_NK3 |-> "",
                   OVRS_EXCG_CD |-> "NASD", SORT_SQN |-> "DS" ]
         [] OTHER
              -> [ CTX_AREA_FK1 |-> "", CTX_AREA_NK1 |-> "",
                   SLL_BUY_DVSN_CD |-> "00", INQR_DVSN |-> "AS", PDNO |-> "",
                   CCLD_DVSN |-> "00", ORD_GNO_BRNO |-> "", ODNO |-> "",
                   INQR_DVSN_3 |-> "00", INQR_DVSN_1 |-> "",
                   INQR_STRT_DT |-> "yesterday", INQR_END_DT |-> "today" ]

\* d holds the entries of given, and those of own that given does not name
Overrides(d, own, given) ==
    /\ DOMAIN d = DOMAIN own \cup DOMAIN given
    /\ \A k \in DOMAIN given : d[k] = given[k]
    /\ \A k \in DOMAIN own \ DOMAIN given : d[k] = own[k]

\* C19: the request a request function builds, and the one that is sent,
\* has the header and parameters the caller supplied, an empty tr_cont
\* header and empty cursor parameters where the caller supplied none, and
\* the account fields and fixed parameters of the function wherever the
\* caller did not name them.
C19_RequestFunctionDefaults ==
    (op \in RequestFunctionOps /\ ~ IsNone(account)) =>
        LET h == IF IsNone(extra_header) THEN EmptyJson ELSE extra_header
            p == IF IsNone(extra_param) THEN EmptyJson ELSE extra_param
        IN  /\ pc # "request" =>
                  /\ Overrides(req.extra_header, [tr_cont |-> ""], h)
                  /\ Overrides(req.params, OwnParams(op), p)
            /\ \A k \in 1..Len(reqlog) :
                  /\ Overrides(reqlog[k].header, [tr_cont |-> ""], h)
                  /\ Overrides(reqlog[k].params, OwnParams(op), p)

\* _get_kr_orders_once was sent with the caller's header and account number
C19_Witness ==
    /\ op = "_get_kr_orders_once"
    /\ extra_header = [tr_cont |-> "N"]
    /\ extra_param = [CANO |-> "00000000"]
    /\ Len(reqlog) = 1
    /\ reqlog[1].header.tr_cont = "N"
    /\ reqlog[1].params.CANO = "00000000"
    /\ reqlog[1].params.CTX_AREA_FK1 = ""
    /\ reqlog[1].params.ACNT_PRDT_CD = account.product_code

====
